---- MODULE Spec2Model ----
(***************************************************************************)
(* Overnads game bot: the request executor (send_request /                 *)
(* send_request_with_retry), the stuck-session recoverer                   *)
(* (handle_stuck_game), the ticket play loop (play_all_games), the stats   *)
(* accessor (fetch_account_stats) and the top-level run (main /            *)
(* __main__), for the two variants src/main.py and src/overnads.py.        *)
(*                                                                         *)
(* One step of the model is one network attempt of the executor, or the    *)
(* caller's code between the return of one executor call and the start of  *)
(* the next one.  The server is the environment: every attempt draws its   *)
(* outcome from a small set of responses, or fails at transport level.     *)
(***************************************************************************)
EXTENDS Integers, Sequences, FiniteSets, TLC

VARIABLES
    variant,     \* "main" (src/main.py) or "overnads" (src/overnads.py)
    telegram,    \* overnads.py: TELEGRAM_TOKEN and TELEGRAM_CHAT_ID are both set
    entry,       \* the function this run calls: main, play_all_games, handle_stuck_game, send_request
    arg,         \* handle_stuck_game's argument when it is the entry (a response)
    script,      \* the answers of a scripted (mock) server, in order; <<>> = any server
    served,      \* how many attempts the scripted server has answered
    pc,          \* "entry", "send", "ret", "done", "exited", "crashed"
    site,        \* the call site the executor is serving
    retries,     \* the executor's retries parameter for the current call
    attempt,     \* the executor's loop index (0-based)
    ret,         \* the executor's return value (None when it gave up)
    payload,     \* the JSON payload of the current executor call
    tickets,     \* tickets_available / initial_tickets
    i,           \* the play loop's index (0-based)
    played,      \* games_played_successfully
    recovered,   \* handle_stuck_game's return value: "none", "true", "false"
    initial,     \* whether the initial stats were fetched ("none", "ok")
    final,       \* the result of the final fetch_account_stats ("none", "ok", "fail")
    sent,        \* history: network attempts issued so far by play_all_games called on its own
    attempts,    \* history: per ticket iteration begun, the states its game session went through
    exitCode,    \* process exit status, -1 while running
    log,         \* run trace: executor calls, sleeps, Telegram posts, milestone log lines
    callLog,     \* outcomes of the attempts of the current executor call
    waits        \* back-off sleeps of the current executor call

vars == <<variant, telegram, entry, arg, script, served, pc, site, retries, attempt,
          ret, payload, tickets, i, played, recovered, initial, final, sent, attempts,
          exitCode,
          log, callLog, waits>>

----------------------------------------------------------------------------
(* Bounds *)

MaxTickets == 2
MaxRetries == 3

----------------------------------------------------------------------------
(* Program constants *)

DefaultRetries == 3
DefaultBackoff == 3
PostRecoveryWait == 10
PlayWait == 30
FinalFetchWait == 5

----------------------------------------------------------------------------
(* Responses.  A body is kept as the sequence of the text fragments that   *)
(* matter to the code (the conflict sentence, the "Game ID: " marker, the  *)
(* identifier), its JSON shape, the value of its "error" member and, for a *)
(* profile body, its "tickets" member.                                     *)

You == "You already have an "
ActiveGame == "active game"
GameIdMark == "Game ID: "
HexId == "abc12345-0000-0000-0000-000000000000"
BadId == "unknown"

NoErr == [t |-> "absent", s |-> <<>>]
NullErr == [t |-> "nonstr", s |-> <<>>]
StrErr(s) == [t |-> "str", s |-> s]

Body(json, err, text, n) == [json |-> json, err |-> err, text |-> text, tickets |-> n]

PlainBody == Body("obj", NoErr, <<"ok">>, 0)
StatsBody(n) == Body("obj", NoErr, <<"stats">>, n)
MalformedBody == Body("notjson", NoErr, <<"<html>">>, 0)

ConflictId == <<You, ActiveGame, GameIdMark, HexId>>
ConflictNoId == <<You, ActiveGame>>
ConflictBadId == <<You, ActiveGame, GameIdMark, BadId>>

JsonErrorId == Body("obj", StrErr(ConflictId), ConflictId, 0)      \* {"error": "You already have an active game. Game ID: abc..."}
JsonErrorNoId == Body("obj", StrErr(ConflictNoId), ConflictNoId, 0) \* {"error": "You already have an active game"}
JsonErrorBadId == Body("obj", StrErr(ConflictBadId), ConflictBadId, 0) \* {"error": "... Game ID: unknown"}
JsonMessageId == Body("obj", NoErr, ConflictId, 0)                 \* {"message": "... Game ID: abc..."}
JsonErrorNull == Body("obj", NullErr, ConflictId, 0)               \* {"error": null, "message": "... Game ID: abc..."}
JsonArrayId == Body("nonobj", NoErr, ConflictId, 0)                \* ["... Game ID: abc..."]
TextId == Body("notjson", NoErr, ConflictId, 0)                    \* plain text with the identifier
TextNoId == Body("notjson", NoErr, ConflictNoId, 0)                \* plain text without it

ConflictBodies ==
    {JsonErrorId, JsonErrorNoId, JsonErrorBadId, JsonMessageId, JsonErrorNull,
     JsonArrayId, TextId, TextNoId}

Resp(status, body) == [status |-> status, body |-> body]

None == Resp(-1, Body("none", NoErr, <<>>, 0))   \* Python's None
Exc == Resp(0, Body("none", NoErr, <<>>, 0))     \* requests.exceptions.RequestException raised by the attempt

GameOutcomes ==
    {Resp(200, PlainBody), Resp(201, PlainBody), Resp(204, PlainBody),
     Resp(400, PlainBody), Resp(404, JsonErrorId), Resp(401, PlainBody),
     Resp(500, PlainBody), Exc}
    \cup {Resp(400, b) : b \in ConflictBodies}

ProfileOutcomes ==
    {Resp(200, StatsBody(n)) : n \in 0..MaxTickets}
    \cup {Resp(200, MalformedBody), Resp(404, PlainBody), Resp(401, PlainBody),
          Resp(500, PlainBody), Exc}

Outcomes(s) ==
    IF s \in {"fetch_initial", "fetch_final"} THEN ProfileOutcomes ELSE GameOutcomes

(* The scripted server of the two-ticket end-to-end scenario: its answers, *)
(* in the order the requests arrive.                                       *)
Scenario ==
    <<Resp(200, PlainBody), Resp(200, PlainBody), Resp(400, JsonErrorId),
      Resp(200, PlainBody), Resp(201, PlainBody), Resp(200, PlainBody)>>

----------------------------------------------------------------------------
(* Payloads.  The random overPoints (90..110) and item counts of a payload *)
(* decide nothing in the code and are left out.                            *)

NoPayload == [gameId |-> "", items |-> "none"]                  \* payload=None
RecoveryPayload(id) == [gameId |-> id, items |-> "empty"]        \* "collectedItems": []
GamePayload == [gameId |-> "", items |-> "coin+ticket"]          \* one coin and one ticket entry

----------------------------------------------------------------------------
(* Trace events *)

Ev(op, what, n) == [op |-> op, what |-> what, n |-> n]
Call(s) == Ev("call", s, 0)            \* one call of the executor from call site s
Sleep(why, n) == Ev("sleep", why, n)   \* time.sleep(n) outside the executor
Telegram == Ev("telegram", "", 0)      \* requests.post to api.telegram.org
Critical == Ev("critical", "", 0)      \* the CRITICAL log line of a 401
Line(what) == Ev("line", what, 0)      \* a milestone log line

Count(seq, e) == Cardinality({k \in 1..Len(seq) : seq[k] = e})
CountOp(seq, op) == Cardinality({k \in 1..Len(seq) : seq[k].op = op})

----------------------------------------------------------------------------
(* Pure parts of the code *)

(* bool(response): requests.Response.__bool__ is Response.ok, which is     *)
(* False for every status in 400..599; None is falsy too.  The code tests  *)
(* `if response and ...` / `if start_response and ...` with it.            *)
Truthy(r) == r # None /\ r.status < 400

(* Executor: the three decisions of one attempt and the loop condition.    *)
IsFatalMut(status) == status = 403
IsFatal(status) == status = 401
ShouldReturnMut(status) == status < 400
ShouldReturn(status) == status < 500
MoreAttemptsMut(a, n) == a <= n
MoreAttempts(a, n) == a < n
BackoffDelay(v, a, b) == IF v = "main" THEN b ELSE b * (a + 1)

(* sys.exit(1) in main.py; the bare exit() of overnads.py raises           *)
(* SystemExit(None), which ends the process with status 0.                 *)
FatalExitCode(v) == IF v = "main" THEN 1 ELSE 0
FetchFailExitCode(v) == IF v = "main" THEN 1 ELSE 0

(* send_telegram_message: one POST when both settings are present.         *)
Tg(v, tg) == IF v = "overnads" /\ tg THEN <<Telegram>> ELSE <<>>

(* `"active game" in text` (main.py) and                                    *)
(* `"You already have an active game" in text` (overnads.py).              *)
HasConflictText(v, text) ==
    IF v = "main"
    THEN \E k \in 1..Len(text) : text[k] = ActiveGame
    ELSE \E k \in 1..Len(text) : k < Len(text) /\ text[k] = You /\ text[k + 1] = ActiveGame

IsStuckMut(v, r) == r # None /\ HasConflictText(v, r.body.text)
IsStuck(v, r) == Truthy(r) /\ r.status = 400 /\ HasConflictText(v, r.body.text)

(* re.search(r'Game ID: ([a-f0-9\-]+)', text).group(1), "" for no match:   *)
(* the marker must be followed by a fragment of hex digits and dashes.     *)
IsHexDash(tok) == tok \in {HexId}
NoMatch == ""
RegexSearch(text) ==
    LET hits == {k \in 1..Len(text) : k < Len(text) /\ text[k] = GameIdMark /\ IsHexDash(text[k + 1])}
    IN  IF hits = {} THEN NoMatch
        ELSE text[(CHOOSE k \in hits : \A m \in hits : k <= m) + 1]

(* handle_stuck_game up to its end request: "end" when an identifier was   *)
(* extracted, "false" when it returns False, "raise" when it raises an     *)
(* exception nothing catches (AttributeError of .get on a JSON value that  *)
(* is no object, TypeError of re.search on an "error" that is no string).  *)
(* response.json() is taken to raise json.JSONDecodeError on a body that   *)
(* is not JSON, which overnads.py catches.                                 *)
ParseStuckGame(v, r) ==
    IF v = "main"
    THEN IF RegexSearch(r.body.text) = NoMatch THEN "false" ELSE "end"
    ELSE CASE r.body.json = "notjson" -> "false"
           [] r.body.json = "nonobj" -> "raise"
           [] r.body.err.t = "nonstr" -> "raise"
           [] OTHER -> IF RegexSearch(r.body.err.s) = NoMatch THEN "false" ELSE "end"

StuckGameId(v, r) ==
    IF v = "main" THEN RegexSearch(r.body.text) ELSE RegexSearch(r.body.err.s)

(* `end_response and end_response.status_code in [200, 201]`               *)
ClearedMut(r) == Truthy(r)
Cleared(r) == Truthy(r) /\ r.status \in {200, 201}
(* `start_response and start_response.status_code in [200, 201]`           *)
StartedMut(r) == Truthy(r)
Started(r) == Truthy(r) /\ r.status \in {200, 201}

(* fetch_account_stats: "ok", "fail" (None / False) or "raise" (the        *)
(* response.json() of overnads.py is not guarded).                         *)
FetchResult(v, r) ==
    IF Truthy(r) /\ r.status = 200
    THEN IF r.body.json = "notjson"
         THEN (IF v = "main" THEN "fail" ELSE "raise")
         ELSE "ok"
    ELSE "fail"

(* play_all_games before its first start: "none" for no tickets, "loop"    *)
(* when range(n) is not empty, "empty" otherwise.                          *)
PlayLoopEntryMut(n) ==
    IF n < 0 THEN "none" ELSE "loop"
PlayLoopEntry(n) ==
    IF n = 0 THEN "none" ELSE IF 0 < n THEN "loop" ELSE "empty"

(* `i < tickets_available - 1`, which is also whether range(n) goes on.    *)
HasNextTicketMut(k, n) == k < n - 2
HasNextTicket(k, n) == k < n - 1

(* random.randint(15, 25) in main.py, random.randint(15, 20) in overnads.py *)
InterWait(v) == IF v = "main" THEN 15..25 ELSE 15..20
(* The values of random.randint the model draws: both ends of the range.  *)
InterWaitDrawn(v) == IF v = "main" THEN {15, 25} ELSE {15, 20}

(* Whether a skipped ticket (start failed) still reaches the inter-ticket  *)
(* wait: main.py leaves the iteration with `continue`, overnads.py falls   *)
(* through to the wait.                                                    *)
SkipWaits(v) == v = "overnads"

----------------------------------------------------------------------------
(* Control *)

config == <<variant, telegram, entry, arg, script>>

Entries == {"main", "play_all_games", "handle_stuck_game", "send_request"}

Init ==
    /\ variant \in {"main", "overnads"}
    /\ telegram \in (IF variant = "main" THEN {FALSE} ELSE BOOLEAN)
    /\ entry \in Entries
    /\ arg \in (IF entry = "handle_stuck_game"
                THEN {Resp(400, b) : b \in ConflictBodies} ELSE {None})
    /\ tickets \in (IF entry = "play_all_games" THEN 0..MaxTickets ELSE {0})
    /\ retries \in (IF entry = "send_request" THEN 0..MaxRetries ELSE {DefaultRetries})
    /\ script \in (IF entry = "play_all_games" /\ tickets = 2
                   THEN {<<>>, Scenario} ELSE {<<>>})
    /\ served = 0
    /\ pc = "entry"
    /\ site = "none"
    /\ payload = NoPayload
    /\ attempt = 0
    /\ ret = None
    /\ i = 0
    /\ played = 0
    /\ recovered = "none"
    /\ initial = "none"
    /\ final = "none"
    /\ sent = 0
    /\ attempts = <<>>
    /\ exitCode = -1
    /\ log = <<>>
    /\ callLog = <<>>
    /\ waits = <<>>

(* The caller starts an executor call from call site s with n retries.     *)
(* The run goes through play_all_games; the call sites of the play loop.   *)
InPlayLoop == entry \in {"main", "play_all_games"}
GameSites == {"start", "restart", "rec_end", "game_end"}

BeginCall(s, n, p, lg) ==
    /\ pc' = "send"
    /\ site' = s
    /\ payload' = p
    /\ retries' = n
    /\ attempt' = 0
    /\ ret' = None
    /\ callLog' = <<>>
    /\ waits' = <<>>
    /\ log' = Append(lg, Call(s))
    /\ exitCode' = exitCode

(* The run stops: the function returned ("done"), the process exited       *)
(* ("exited") or an exception reached the top level ("crashed").           *)
Halt(p, code, lg) ==
    /\ pc' = p
    /\ exitCode' = code
    /\ log' = lg
    /\ UNCHANGED <<site, retries, attempt, ret, payload, callLog, waits>>

(* send_request / send_request_with_retry: one iteration of the loop.      *)
SendAttempt ==
    /\ pc = "send"
    /\ MoreAttempts(attempt, retries)
    /\ \E o \in (IF served < Len(script) THEN {script[served + 1]} ELSE Outcomes(site)) :
        /\ served' = IF served < Len(script) THEN served + 1 ELSE served
        /\ callLog' = Append(callLog, o)
        /\ sent' = IF entry = "play_all_games" THEN sent + 1 ELSE sent
        /\ IF o # Exc /\ IsFatal(o.status)
           THEN /\ pc' = "exited"
                /\ exitCode' = FatalExitCode(variant)
                /\ log' = Append(log, Critical) \o Tg(variant, telegram)
                /\ UNCHANGED <<attempt, ret, waits>>
           ELSE IF o # Exc /\ ShouldReturn(o.status)
           THEN /\ pc' = "ret"
                /\ ret' = o
                /\ UNCHANGED <<attempt, waits, log, exitCode>>
           ELSE /\ pc' = "send"
                /\ waits' = Append(waits, BackoffDelay(variant, attempt, DefaultBackoff))
                /\ attempt' = attempt + 1
                /\ UNCHANGED <<ret, log, exitCode>>
    /\ UNCHANGED <<config, site, retries, payload, tickets, i, played, recovered, initial, final,
                   attempts>>

(* The loop of the executor is over: the failure line and `return None`.   *)
SendExhausted ==
    /\ pc = "send"
    /\ ~MoreAttempts(attempt, retries)
    /\ pc' = "ret"
    /\ ret' = None
    /\ log' = Append(log, Line("request_failed"))
    /\ UNCHANGED <<sent, attempts, config, served, site, retries, attempt, payload, tickets, i, played,
                   recovered, initial, final, exitCode, callLog, waits>>

(* What a response shows of the game session, whatever the caller makes   *)
(* of it: the stuck-game conflict (a 400 carrying the active-game text),   *)
(* a start that succeeded, a recovery end that succeeded.                  *)
SeenConflict(r) ==
    IF r # None /\ r.status = 400 /\ HasConflictText(variant, r.body.text)
    THEN <<"Conflict">> ELSE <<>>
SeenStarted(r) == IF r # None /\ r.status \in {200, 201} THEN <<"Started">> ELSE <<>>
SeenRecovered(r) == IF r # None /\ r.status \in {200, 201} THEN <<"Recovered">> ELSE <<>>

(* The history of the iteration at hand extended by the states in st; and  *)
(* the same at the end of the iteration, where the next one (if any)       *)
(* begins in NotStarted.                                                   *)
Extend(st) ==
    IF attempts = <<>> THEN attempts
    ELSE [attempts EXCEPT ![Len(attempts)] = @ \o st]
Close(st) ==
    IF attempts # <<>> /\ HasNextTicket(i, tickets)
    THEN Append(Extend(st), <<"NotStarted">>)
    ELSE Extend(st)

(* After the play loop: main sleeps 5 s and fetches the final stats; a     *)
(* direct call of play_all_games returns.                                  *)
AfterLoop(lg) ==
    IF entry = "main"
    THEN BeginCall("fetch_final", DefaultRetries, NoPayload, Append(lg, Sleep("final", FinalFetchWait)))
    ELSE Halt("done", exitCode, lg)

(* play_all_games up to the first start request.                           *)
EnterLoop(n, lg) ==
    /\ i' = 0
    /\ played' = 0
    /\ attempts' = IF PlayLoopEntry(n) = "loop" THEN << <<"NotStarted">> >> ELSE <<>>
    /\ CASE PlayLoopEntry(n) = "none" -> AfterLoop(Append(lg, Line("no_tickets")))
         [] PlayLoopEntry(n) = "loop" ->
                BeginCall("start", DefaultRetries, NoPayload, Append(lg, Line("loop_start")))
         [] OTHER -> AfterLoop(Append(Append(lg, Line("loop_start")), Line("loop_end")))

(* The end of one iteration: the inter-ticket wait (when the iteration     *)
(* reaches it) and the next ticket's start, or the end of the loop.        *)
NextIteration(wait, lg) ==
    IF HasNextTicket(i, tickets)
    THEN /\ i' = i + 1
         /\ IF wait
            THEN \E d \in InterWaitDrawn(variant) :
                    BeginCall("start", DefaultRetries, NoPayload, Append(lg, Sleep("inter", d)))
            ELSE BeginCall("start", DefaultRetries, NoPayload, lg)
    ELSE /\ i' = i
         /\ AfterLoop(Append(lg, Line("loop_end")))

(* handle_stuck_game up to its end request, for the caller at hand.        *)
Recover(r, lg) ==
    CASE ParseStuckGame(variant, r) = "end" ->
            /\ BeginCall("rec_end", DefaultRetries,
                         RecoveryPayload(StuckGameId(variant, r)), lg)
            /\ attempts' = Extend(SeenConflict(r))
            /\ UNCHANGED <<i, recovered>>
      [] ParseStuckGame(variant, r) = "raise" ->
            /\ Halt("crashed", 1, lg)
            /\ attempts' = Extend(SeenConflict(r))
            /\ UNCHANGED <<i, recovered>>
      [] OTHER ->
            /\ recovered' = "false"
            /\ attempts' = Close(SeenConflict(r) \o <<"Failed">>)
            /\ IF entry = "handle_stuck_game"
               THEN Halt("done", exitCode, Append(lg, Line("no_game_id"))) /\ i' = i
               ELSE NextIteration(FALSE,
                        Append(Append(lg, Line("no_game_id")), Line("heal_failed"))
                            \o Tg(variant, telegram))

----------------------------------------------------------------------------
(* Entry points *)

(* main() / the __main__ block: the start message and the initial fetch.   *)
StartMain ==
    /\ pc = "entry" /\ entry = "main"
    /\ BeginCall("fetch_initial", DefaultRetries, NoPayload,
                 Append(log, Line("bot_started")) \o Tg(variant, telegram))
    /\ UNCHANGED <<sent, config, served, tickets, i, played, recovered, initial, final,
                   attempts>>

(* play_all_games(tickets) called on its own.                              *)
CallPlayAllGames ==
    /\ pc = "entry" /\ entry = "play_all_games"
    /\ EnterLoop(tickets, log)
    /\ UNCHANGED <<sent, config, served, tickets, recovered, initial, final>>

(* handle_stuck_game(arg) called on its own, arg a conflict response.      *)
CallHandleStuckGame ==
    /\ pc = "entry" /\ entry = "handle_stuck_game"
    /\ Recover(arg, log)
    /\ UNCHANGED <<sent, config, served, tickets, played, initial, final>>

(* send_request(..., retries = n) called on its own.                       *)
CallSendRequest ==
    /\ pc = "entry" /\ entry = "send_request"
    /\ BeginCall("unit", retries, NoPayload, log)
    /\ UNCHANGED <<sent, config, served, tickets, i, played, recovered, initial, final,
                   attempts>>

UnitReturn ==
    /\ pc = "ret" /\ site = "unit"
    /\ Halt("done", exitCode, log)
    /\ UNCHANGED <<sent, config, served, tickets, i, played, recovered, initial, final,
                   attempts>>

----------------------------------------------------------------------------
(* The callers' code after each executor call *)

(* fetch_account_stats and main up to the play loop.                       *)
InitialFetchReturn ==
    /\ pc = "ret" /\ site = "fetch_initial"
    /\ CASE FetchResult(variant, ret) = "ok" ->
              /\ initial' = "ok"
              /\ tickets' = ret.body.tickets
              /\ EnterLoop(ret.body.tickets,
                           Append(log, Line("welcome")) \o Tg(variant, telegram))
         [] FetchResult(variant, ret) = "raise" ->
              /\ Halt("crashed", 1, log)
              /\ UNCHANGED <<initial, tickets, i, played, attempts>>
         [] OTHER ->
              /\ Halt("exited", FetchFailExitCode(variant),
                      Append(log, Line("no_initial_stats")))
              /\ UNCHANGED <<initial, tickets, i, played, attempts>>
    /\ UNCHANGED <<sent, config, served, recovered, final>>

(* The started branch up to the game-end request: the "playing" line and  *)
(* time.sleep(30).                                                         *)
PlayingMut(lg) == Append(lg, Line("started"))
Playing(lg) == Append(Append(lg, Line("started")), Sleep("play", PlayWait))

(* play_all_games after a start request (the first one of the ticket, or   *)
(* the one re-issued after a recovery): the stuck-game branch, the         *)
(* started branch, the skip branch.                                        *)
StartReturnMut ==
    /\ pc = "ret" /\ site \in {"start", "restart"}
    /\ IF ret # None /\ ret.status = 400 /\ HasConflictText(variant, ret.body.text)
       THEN /\ Recover(ret, Append(log, Line("stuck")) \o Tg(variant, telegram))
            /\ UNCHANGED played
       ELSE IF Started(ret)
       THEN /\ BeginCall("game_end", DefaultRetries, GamePayload,
                         Playing(log))
            /\ attempts' = Extend(SeenStarted(ret))
            /\ UNCHANGED <<i, played, recovered>>
       ELSE /\ NextIteration(SkipWaits(variant),
                             Append(log, Line("start_failed")) \o Tg(variant, telegram))
            /\ attempts' = Close((IF site = "start" THEN SeenConflict(ret) ELSE <<>>)
                                     \o SeenStarted(ret) \o <<"Failed">>)
            /\ UNCHANGED <<played, recovered>>
    /\ UNCHANGED <<sent, config, served, tickets, initial, final>>
StartReturn ==
    /\ pc = "ret" /\ site \in {"start", "restart"}
    /\ IF site = "start" /\ IsStuck(variant, ret)
       THEN /\ Recover(ret, Append(log, Line("stuck")) \o Tg(variant, telegram))
            /\ UNCHANGED played
       ELSE IF Started(ret)
       THEN /\ BeginCall("game_end", DefaultRetries, GamePayload,
                         Playing(log))
            /\ attempts' = Extend(SeenStarted(ret))
            /\ UNCHANGED <<i, played, recovered>>
       ELSE /\ NextIteration(SkipWaits(variant),
                             Append(log, Line("start_failed")) \o Tg(variant, telegram))
            /\ attempts' = Close((IF site = "start" THEN SeenConflict(ret) ELSE <<>>)
                                     \o SeenStarted(ret) \o <<"Failed">>)
            /\ UNCHANGED <<played, recovered>>
    /\ UNCHANGED <<sent, config, served, tickets, initial, final>>

(* handle_stuck_game after its end request, and the caller's use of the    *)
(* result: wait 10 s and start again, or skip the ticket.                  *)
RecoverReturn ==
    /\ pc = "ret" /\ site = "rec_end"
    /\ recovered' = IF Cleared(ret) THEN "true" ELSE "false"
    /\ IF entry = "handle_stuck_game"
       THEN /\ Halt("done", exitCode,
                    Append(log, Line(IF Cleared(ret) THEN "cleared" ELSE "clear_failed")))
            /\ UNCHANGED <<i, attempts>>
       ELSE IF Cleared(ret)
       THEN /\ BeginCall("restart", DefaultRetries, NoPayload,
                         Append(Append(log, Line("cleared")), Sleep("heal", PostRecoveryWait)))
            /\ attempts' = Extend(SeenRecovered(ret))
            /\ i' = i
       ELSE /\ NextIteration(FALSE,
                   Append(Append(log, Line("clear_failed")), Line("heal_failed"))
                       \o Tg(variant, telegram))
            /\ attempts' = Close(SeenRecovered(ret) \o <<"Failed">>)
    /\ UNCHANGED <<sent, config, served, tickets, played, initial, final>>

(* play_all_games after the game-end request: its result is not looked at. *)
GameEndReturn ==
    /\ pc = "ret" /\ site = "game_end"
    /\ played' = played + 1
    /\ NextIteration(TRUE, Append(log, Line("finished")))
    /\ attempts' = Close(<<"Ended">>)
    /\ UNCHANGED <<sent, config, served, tickets, recovered, initial, final>>

(* What the end of the run reports.  main.py: print_summary(initial_stats, *)
(* final_stats) prints the missing-stats warning when either is None and   *)
(* the initial/final/gained table otherwise.  overnads.py: the "Final      *)
(* Balance" message is built from the global account_stats, which the      *)
(* final fetch overwrites only when it succeeds, and it goes out through   *)
(* send_telegram_message, that is, only when Telegram is configured.       *)
Summary(v, tg, ini, fin) ==
    IF v = "main"
    THEN <<Ev("summary", IF ini = "ok" /\ fin = "ok" THEN "deltas" ELSE "missing_note", 0)>>
    ELSE IF tg
         THEN <<Ev("summary", IF fin = "ok" THEN "balance_of_final" ELSE "balance_of_initial", 0),
                Telegram>>
         ELSE <<>>

(* The final fetch_account_stats, the summary and the end of the run.      *)
FinalFetchReturn ==
    /\ pc = "ret" /\ site = "fetch_final"
    /\ CASE FetchResult(variant, ret) = "raise" ->
              /\ Halt("crashed", 1, log)
              /\ final' = final
         [] OTHER ->
              /\ final' = FetchResult(variant, ret)
              /\ Halt("done", 0,
                      Append(log \o Summary(variant, telegram, initial, FetchResult(variant, ret)),
                             Line("script_finished")))
    /\ UNCHANGED <<sent, config, served, tickets, i, played, recovered, initial,
                   attempts>>

Next ==
    \/ StartMain
    \/ CallPlayAllGames
    \/ CallHandleStuckGame
    \/ CallSendRequest
    \/ SendAttempt
    \/ SendExhausted
    \/ UnitReturn
    \/ InitialFetchReturn
    \/ StartReturn
    \/ RecoverReturn
    \/ GameEndReturn
    \/ FinalFetchReturn

Spec == Init /\ [][Next]_vars

(* The program is sequential and none of its steps can last forever: every *)
(* request has a timeout (main.py:91; overnads.py:43, 69, 71) and every    *)
(* sleep is finite, so a step that can be taken is taken.                  *)
LiveSpec == Spec /\ WF_vars(Next)

Last(seq) == seq[Len(seq)]
Failed(o) == o = Exc \/ o.status >= 500          \* an attempt the executor retries

(* The shape of the state.                                                 *)
TypeOK ==
    /\ variant \in {"main", "overnads"}
    /\ telegram \in BOOLEAN /\ (telegram => variant = "overnads")
    /\ entry \in Entries
    /\ script \in {<<>>, Scenario}
    /\ served \in 0..Len(script)
    /\ pc \in {"entry", "send", "ret", "done", "exited", "crashed"}
    /\ site \in {"none", "unit", "fetch_initial", "start", "rec_end", "restart",
                 "game_end", "fetch_final"}
    /\ retries \in 0..(IF MaxRetries > DefaultRetries THEN MaxRetries ELSE DefaultRetries)
    /\ attempt \in 0..retries
    /\ ret \in GameOutcomes \cup ProfileOutcomes \cup {None}
    /\ payload \in {NoPayload, GamePayload, RecoveryPayload(HexId)}
    /\ tickets \in 0..MaxTickets
    /\ i \in 0..MaxTickets
    /\ played \in 0..tickets
    /\ recovered \in {"none", "true", "false"}
    /\ initial \in {"none", "ok"}
    /\ final \in {"none", "ok", "fail"}
    /\ sent \in Nat
    /\ attempts \in Seq(Seq({"NotStarted", "Conflict", "Recovered", "Started", "Ended", "Failed"}))
    /\ Len(attempts) <= tickets
    /\ exitCode \in {-1, 0, 1}
    /\ Len(callLog) = Len(waits) + (IF pc = "send" \/ callLog = <<>> \/ Failed(callLog[Len(callLog)]) THEN 0 ELSE 1)

----------------------------------------------------------------------------
(* Properties *)

Has401(seq) == \E k \in 1..Len(seq) : seq[k] # Exc /\ seq[k].status = 401
AfterCritical(ops) ==
    \A a, b \in 1..Len(log) : (a < b /\ log[a] = Critical) => log[b].op \notin ops

(* C1 as stated: once an attempt of the current executor call received a   *)
(* 401, the process has exited, that attempt is the last one, and nothing  *)
(* that reaches the network (an executor call, a Telegram POST) follows    *)
(* the CRITICAL line in the trace.                                         *)
C1_NoNetworkAfter401 ==
    Has401(callLog) =>
        /\ pc = "exited"
        /\ Last(callLog).status = 401
        /\ \A k \in 1..(Len(callLog) - 1) : Failed(callLog[k])
        /\ AfterCritical({"call", "telegram"})

(* C1 amended: once an attempt received a 401 the process has exited, that *)
(* attempt is the last one, no executor call (profile, start, end) follows *)
(* the CRITICAL line, and the only thing that may follow it is the single  *)
(* Telegram POST overnads.py sends when its Telegram settings are present. *)
C1_NoApiCallAfter401 ==
    Has401(callLog) =>
        /\ pc = "exited"
        /\ Last(callLog).status = 401
        /\ \A k \in 1..(Len(callLog) - 1) : Failed(callLog[k])
        /\ AfterCritical({"call", "sleep", "line", "critical"})
        /\ \E k \in 1..Len(log) :
              /\ log[k] = Critical
              /\ SubSeq(log, k + 1, Len(log)) = Tg(variant, telegram)

C1_Witness ==
    /\ Has401(callLog) /\ Len(callLog) = 2
    /\ site = "game_end" /\ variant = "overnads" /\ telegram
    /\ Last(log) = Telegram

(* C2: an executor call never makes more than `retries` attempts (3 in     *)
(* every call the program makes); it returns None only after exactly       *)
(* `retries` attempts that all failed with a status >= 500 or a transport  *)
(* exception; and a call whose attempts all failed returns None and does   *)
(* so only once `retries` attempts were made.                              *)
C2_ExhaustsExactlyRetries ==
    /\ Len(callLog) <= retries
    /\ entry # "send_request" => retries = DefaultRetries
    /\ (pc = "ret" /\ ret = None) =>
          /\ Len(callLog) = retries
          /\ \A k \in 1..Len(callLog) : Failed(callLog[k])
    /\ (pc = "ret" /\ \A k \in 1..Len(callLog) : Failed(callLog[k])) =>
          /\ ret = None
          /\ Len(callLog) = retries
    /\ (pc = "send" /\ Len(callLog) < retries) => ENABLED SendAttempt

C2_Witness ==
    /\ pc = "ret" /\ ret = None /\ site = "start"
    /\ Len(callLog) = DefaultRetries
    /\ callLog[1] = Exc /\ callLog[2].status = 500

(* C3: an attempt answered with a status below 500 is the last attempt of  *)
(* its call, and unless the status is 401 the call returns exactly that    *)
(* response, whatever failed before it in the same call.                   *)
C3_FirstBelow500Returned ==
    /\ \A k \in 1..Len(callLog) : ~Failed(callLog[k]) => k = Len(callLog)
    /\ (pc = "ret" /\ ret # None) =>
          /\ callLog # <<>>
          /\ ret = Last(callLog)
          /\ ret.status < 500 /\ ret.status # 401
    /\ (callLog # <<>> /\ ~Failed(Last(callLog)) /\ Last(callLog).status # 401) =>
          /\ pc # "send"
          /\ ret = Last(callLog)

C3_Witness ==
    /\ pc = "ret" /\ Len(callLog) = 3
    /\ callLog[1].status = 500 /\ callLog[2] = Exc
    /\ ret = Resp(400, JsonErrorId)

LoopStarted == \E k \in 1..Len(log) : log[k] = Line("loop_start")
LoopEnded == \E k \in 1..Len(log) : log[k] = Line("loop_end")
GameCalls == {k \in 1..Len(log) : log[k].op = "call" /\ log[k].what \in GameSites}

(* C4: with N > 0 tickets, every iteration of the play loop issues its     *)
(* start request (iteration i is reached with exactly i + 1 first starts   *)
(* issued), the loop ends only after the start of ticket N, and the only   *)
(* way the run stops inside the loop is a 401; while the loop runs and the *)
(* process has not exited, a next step exists.                             *)
C4_LoopRunsAllTickets ==
    InPlayLoop =>
        /\ LoopStarted =>
              /\ tickets > 0 /\ i < tickets
              /\ Count(log, Call("start")) = i + 1
        /\ LoopEnded =>
              /\ LoopStarted
              /\ i = tickets - 1
              /\ Count(log, Call("start")) = tickets
        /\ (LoopStarted /\ ~LoopEnded) =>
              /\ pc \in {"send", "ret", "exited"}
              /\ pc = "exited" => Has401(callLog)
              /\ pc # "exited" => ENABLED Next
        /\ (pc = "done" /\ tickets > 0) => LoopEnded

C4_Witness ==
    /\ InPlayLoop /\ LoopEnded /\ tickets = 2
    /\ played = 1
    /\ Count(log, Call("start")) = 2
    /\ Count(log, Line("start_failed")) = 1
    /\ \E a, b \in 1..Len(log) :
          a < b /\ log[a] = Line("start_failed") /\ log[b] = Line("finished")

(* C5: a play loop entered with no tickets issues no start, end or         *)
(* recovery request and performs none of the loop's timed waits; called on *)
(* its own it leaves nothing but its "no tickets" line in the trace, and   *)
(* in a whole run that line is followed at once by the 5 s wait of main.   *)
C5_NoTicketsNoCalls ==
    (InPlayLoop /\ tickets = 0) =>
        /\ GameCalls = {}
        /\ \A k \in 1..Len(log) :
              log[k].op = "sleep" => log[k] = Sleep("final", FinalFetchWait)
        /\ ~LoopStarted
        /\ (entry = "play_all_games" /\ pc # "entry") =>
              /\ pc = "done"
              /\ log = <<Line("no_tickets")>>
              /\ callLog = <<>>
        /\ \A k \in 1..Len(log) :
              (log[k] = Line("no_tickets") /\ k < Len(log)) =>
                  log[k + 1] = Sleep("final", FinalFetchWait)

C5_Witness ==
    /\ entry = "main" /\ initial = "ok" /\ tickets = 0 /\ pc = "done"
    /\ \E k \in 1..Len(log) : log[k] = Line("no_tickets")

(* What the claims call an extractable session identifier: a match of      *)
(* 'Game ID: <hex-with-dashes>' in the text body (main.py) or in the JSON  *)
(* "error" member (overnads.py).                                           *)
Extractable(v, r) ==
    IF v = "main"
    THEN RegexSearch(r.body.text) # NoMatch
    ELSE /\ r.body.json = "obj"
         /\ r.body.err.t = "str"
         /\ RegexSearch(r.body.err.s) # NoMatch

(* C6: handle_stuck_game called with a conflict response that carries no   *)
(* extractable identifier returns False and issues no network call.        *)
C6_NoIdReturnsFalse ==
    (entry = "handle_stuck_game" /\ ~Extractable(variant, arg) /\ pc # "entry") =>
        /\ pc = "done"
        /\ recovered = "false"
        /\ CountOp(log, "call") = 0
        /\ CountOp(log, "telegram") = 0
        /\ callLog = <<>>

(* C7: handle_stuck_game called with a conflict response that carries an   *)
(* identifier makes exactly one executor call, the end request whose       *)
(* payload names that identifier and has no collected items, and returns   *)
(* True exactly when that call returned a response of status 200 or 201.   *)
C7_RecoverIffEndOk ==
    (entry = "handle_stuck_game" /\ Extractable(variant, arg) /\ pc # "entry") =>
        /\ CountOp(log, "call") = 1
        /\ Count(log, Call("rec_end")) = 1
        /\ site = "rec_end"
        /\ payload = RecoveryPayload(HexId)
        /\ pc \in {"send", "ret", "done", "exited"}
        /\ pc = "exited" => Has401(callLog)
        /\ pc \in {"send", "ret", "exited"} => recovered = "none"
        /\ pc = "done" =>
              /\ recovered \in {"true", "false"}
              /\ recovered = "true" <=> (ret # None /\ ret.status \in {200, 201})

C7_Witness ==
    /\ entry = "handle_stuck_game" /\ pc = "done"
    /\ recovered = "true"
    /\ ret.status = 201
    /\ Len(callLog) = 2

(* A start response that is the stuck-session conflict with an identifier  *)
(* in it: status 400, the conflict sentence in the text, the identifier    *)
(* extractable.                                                            *)
StuckConflict(r) ==
    /\ r # None
    /\ r.status = 400
    /\ HasConflictText(variant, r.body.text)
    /\ Extractable(variant, r)

(* C8: in the play loop, a ticket's start response that is the stuck-      *)
(* session conflict is answered by the recovery end call, and when that    *)
(* call succeeds (200 or 201) the loop waits exactly 10 s and then issues  *)
(* one more start request for the ticket, nothing else in between.         *)
C8_RecoveredThenRestart ==
    [][ /\ (InPlayLoop /\ pc = "ret" /\ site = "start" /\ StuckConflict(ret)) =>
              (pc' = "send" /\ site' = "rec_end" /\ i' = i)
        /\ (InPlayLoop /\ pc = "ret" /\ site = "rec_end"
               /\ ret # None /\ ret.status \in {200, 201}) =>
              /\ pc' = "send" /\ site' = "restart" /\ i' = i
              /\ SelectSeq(SubSeq(log', Len(log) + 1, Len(log')),
                           LAMBDA e : e.op # "line")
                    = <<Sleep("heal", PostRecoveryWait), Call("restart")>>
      ]_vars

(* The calls and sleeps of the trace, in order.                            *)
CallsAndSleeps == SelectSeq(log, LAMBDA e : e.op \in {"call", "sleep"})

(* C9: the two-ticket scenario against the scripted server: when the loop  *)
(* has returned, the trace holds the six calls in order (start, end,       *)
(* start, recovery end, start, end) with the 30 s wait before each game    *)
(* end, the 10 s wait before the re-issued start and one inter-ticket      *)
(* wait after ticket 1, both tickets were played and no fatal exit         *)
(* happened.                                                               *)
C9_ScenarioSixCalls ==
    (entry = "play_all_games" /\ script = Scenario /\ pc \in {"done", "exited", "crashed"}) =>
        /\ pc = "done"
        /\ played = 2
        /\ served = 6
        /\ Len(CallsAndSleeps) = 10
        /\ \E d \in InterWait(variant) :
              CallsAndSleeps =
                  <<Call("start"), Sleep("play", PlayWait), Call("game_end"),
                    Sleep("inter", d),
                    Call("start"), Call("rec_end"), Sleep("heal", PostRecoveryWait),
                    Call("restart"), Sleep("play", PlayWait), Call("game_end")>>

(* C10: when the initial stats fetch of a whole run fails, the run ends    *)
(* there: no start, end or recovery request is ever issued and the exit    *)
(* status is not zero.                                                     *)
C10_InitialFetchFailAborts ==
    /\ (entry = "main" /\ initial # "ok") => GameCalls = {}
    /\ (entry = "main" /\ site = "fetch_initial" /\ pc \notin {"send", "ret"}
           /\ FetchResult(variant, ret) = "fail" /\ ~Has401(callLog)) =>
          /\ pc = "exited"
          /\ GameCalls = {}
          /\ exitCode > 0

----------------------------------------------------------------------------
(* C11 *)

FetchSites == {"fetch_initial", "fetch_final"}

(* The profile response carries a stats record: status 200 and a body     *)
(* that parses.                                                            *)
GoodProfile(r) == r # None /\ r.status = 200 /\ r.body.json # "notjson"

(* C11: fetch_account_stats yields the stats exactly when the profile     *)
(* response has status 200 and a body that parses; for every other result  *)
(* of the executor (None, a status other than 200, a 200 whose body does   *)
(* not parse) it yields the failure value, and it never raises.            *)
C11_FetchFailsQuietly ==
    [][(pc = "ret" /\ site \in FetchSites)
          => /\ pc' # "crashed"
             /\ site = "fetch_initial" => (initial' = "ok" <=> GoodProfile(ret))
             /\ site = "fetch_final" => (final' = "ok" <=> GoodProfile(ret))
             /\ (site = "fetch_final" /\ ~GoodProfile(ret)) => final' = "fail"]_vars

----------------------------------------------------------------------------
(* C12 *)

(* The step issues the game-end request that carries the collected items.  *)
IssuesGameEnd == pc # "send" /\ pc' = "send" /\ payload' = GamePayload

(* C12: the game-end request with collected items is issued only by the   *)
(* ticket iteration at hand, right after a start request of that iteration *)
(* (the first or the re-issued one) returned with status 200 or 201;       *)
(* after a start that returned None or any other status the iteration      *)
(* issues no such request, and no other request carries the items.         *)
C12_GameEndOnlyAfterStarted ==
    /\ [](payload = GamePayload <=> site = "game_end")
    /\ [][IssuesGameEnd
             => /\ pc = "ret" /\ site \in {"start", "restart"}
                /\ ret # None /\ ret.status \in {200, 201}
                /\ i' = i]_vars
    /\ [][(pc = "ret" /\ site \in {"start", "restart"}
              /\ (ret = None \/ ret.status \notin {200, 201}))
             => site' # "game_end"]_vars

(* The second ticket's game is being ended after its start succeeded, the  *)
(* first ticket having been skipped.                                       *)
C12_Witness ==
    /\ InPlayLoop /\ site = "game_end" /\ pc = "send" /\ attempt = 0
    /\ i = 1 /\ played = 0
    /\ Count(log, Line("start_failed")) = 1
    /\ Count(log, Line("started")) = 1
    /\ Last(log) = Call("game_end")

----------------------------------------------------------------------------
(* C13 *)

IsInterWait(e) == e.op = "sleep" /\ e.what = "inter"

(* C13: every start of a ticket other than the first of the loop comes    *)
(* right after the randomized inter-ticket wait (15..25 s in main.py,      *)
(* 15..20 s in overnads.py), whatever the outcome of the ticket before     *)
(* it; an inter-ticket wait is always followed by the next ticket's start, *)
(* so there is none after the last ticket.                                 *)
C13_WaitBetweenTickets ==
    InPlayLoop =>
        \A k \in 1..Len(log) :
            /\ (log[k] = Call("start") /\ \E j \in 1..(k - 1) : log[j] = Call("start"))
                  => (IsInterWait(log[k - 1]) /\ log[k - 1].n \in InterWait(variant))
            /\ IsInterWait(log[k]) => (k < Len(log) /\ log[k + 1] = Call("start"))

----------------------------------------------------------------------------
(* C14 *)

IsPrefix(s, t) == Len(s) <= Len(t) /\ SubSeq(t, 1, Len(s)) = s

PlayedPath == <<"NotStarted", "Started", "Ended">>
RecoveredPath == <<"NotStarted", "Conflict", "Recovered", "Started", "Ended">>
FailedPath == <<"NotStarted", "Failed">>
ConflictFailedPath == <<"NotStarted", "Conflict", "Failed">>

(* Every iteration that is over went through exactly one of the paths,     *)
(* and the iteration at hand is on its way along one of them.              *)
FollowsPaths(paths) ==
    \A k \in 1..Len(attempts) :
        /\ \E p \in paths : IsPrefix(attempts[k], p)
        /\ (k < Len(attempts) \/ pc = "done" \/ site = "fetch_final") => attempts[k] \in paths

----------------------------------------------------------------------------
(* C15 *)

(* What the step adds to the log. *)
Logged == SubSeq(log', Len(log) + 1, Len(log'))

FailureLines == {Line("start_failed"), Line("heal_failed"), Line("request_failed")}

(* C15: when a start or game-end call of the play loop returns None or a  *)
(* response whose status is not 200/201, a failure line for that call is   *)
(* logged (by the executor when it gives up, or by the loop) before the    *)
(* next ticket begins, and the ticket is neither reported as finished      *)
(* successfully nor counted as played.                                     *)
C15_FailedCallsLogged ==
    [][(InPlayLoop /\ pc = "ret" /\ site \in {"start", "restart", "game_end"}
           /\ (ret = None \/ ret.status \notin {200, 201}))
          => /\ \/ \E k \in 1..Len(Logged) : Logged[k] \in FailureLines
                \/ (ret = None /\ Last(log) = Line("request_failed"))
             /\ \A k \in 1..Len(Logged) : Logged[k] # Line("finished")
             /\ played' = played]_vars

----------------------------------------------------------------------------
(* C16 *)

SummaryEvents == SelectSeq(log, LAMBDA e : e.op = "summary")

(* C16: when the initial stats fetch succeeded and the final one fails,   *)
(* the run still ends normally (no exception, exit status 0), what it      *)
(* reports at the end is the missing-stats note and no balance or delta    *)
(* figures, and the values of the initial snapshot are never given as the  *)
(* final balance.                                                          *)
C16_FinalFetchFailNoted ==
    /\ [][(entry = "main" /\ pc = "ret" /\ site = "fetch_final" /\ ~GoodProfile(ret))
             => /\ pc' = "done" /\ exitCode' = 0
                /\ final' = "fail"]_vars
    /\ [](Ev("summary", "balance_of_initial", 0) \notin {log[k] : k \in 1..Len(log)})
    /\ []((entry = "main" /\ pc = "done" /\ initial = "ok" /\ final = "fail")
             => SummaryEvents = <<Ev("summary", "missing_note", 0)>>)

----------------------------------------------------------------------------
(* C17 *)

(* C17: the back-off waits of one executor call come only between its     *)
(* attempts: the k-th wait, after failed attempt k, lasts backoff seconds  *)
(* in main.py and backoff * k seconds in overnads.py, and a call whose     *)
(* maxRetries attempts have all failed has waited maxRetries - 1 times,    *)
(* not after the last attempt.                                             *)
C17_WaitsBetweenAttempts ==
    /\ \A k \in 1..Len(waits) :
          waits[k] = IF variant = "main" THEN DefaultBackoff ELSE DefaultBackoff * k
    /\ Len(waits) <= Len(callLog)
    /\ (retries >= 1 /\ Len(callLog) = retries /\ Failed(Last(callLog)))
          => Len(waits) = retries - 1

----------------------------------------------------------------------------
(* C18 *)

IsPlayWait(e) == e.op = "sleep" /\ e.what = "play"

PlayWaitsLogged == Cardinality({k \in 1..Len(Logged) : IsPlayWait(Logged[k])})

(* C18: an iteration whose start returned 200/201 waits 30 seconds exactly *)
(* once between that response and its game-end request, which is never    *)
(* issued before the wait is over; an iteration whose start did not        *)
(* succeed has no 30-second wait.                                          *)
C18_PlayWaitBeforeGameEnd ==
    /\ [](\A k \in 1..Len(log) :
             /\ log[k] = Call("game_end")
                   => (k > 1 /\ log[k - 1] = Sleep("play", PlayWait))
             /\ IsPlayWait(log[k])
                   => (log[k].n = PlayWait /\ k < Len(log) /\ log[k + 1] = Call("game_end")))
    /\ [][(pc = "ret" /\ site \in {"start", "restart"})
             => PlayWaitsLogged
                   = (IF ret # None /\ ret.status \in {200, 201} THEN 1 ELSE 0)]_vars
    /\ [][~(pc = "ret" /\ site \in {"start", "restart"}) => PlayWaitsLogged = 0]_vars

(* The game-end request of the second ticket has been issued after the     *)
(* 30-second wait; the first ticket, whose start failed, had none.         *)
C18_Witness ==
    /\ InPlayLoop /\ site = "game_end" /\ i = 1
    /\ Count(log, Line("start_failed")) = 1
    /\ Count(log, Sleep("play", PlayWait)) = 1
    /\ Count(log, Call("game_end")) = 1

----------------------------------------------------------------------------
(* C19 *)

(* The step of the play loop invokes the recoverer / issues its end        *)
(* request.                                                                *)
InvokesRecoverer ==
    \E k \in 1..Len(Logged) : Logged[k] \in {Line("stuck"), Call("rec_end")}

(* The step skips the ticket: the failure line, and the loop moves on      *)
(* without a game-end request for this ticket.                             *)
SkipsTicket ==
    /\ \E k \in 1..Len(Logged) : Logged[k] = Line("start_failed")
    /\ \A k \in 1..Len(Logged) : Logged[k] \notin {Call("rec_end"), Call("game_end")}
    /\ played' = played
    /\ site' \notin {"rec_end", "game_end", "restart"}

(* C19: the play loop invokes the recoverer only for a first start        *)
(* response of the ticket with status exactly 400 and the active-game text *)
(* in its body; when the start returns None, a 400 without that text, or   *)
(* another status that is not a success (other 4xx with the text           *)
(* included), the ticket is skipped and no recovery end request is issued. *)
C19_RecoverOnlyOn400Conflict ==
    /\ [][(InPlayLoop /\ InvokesRecoverer)
             => /\ pc = "ret" /\ site = "start"
                /\ ret # None /\ ret.status = 400
                /\ HasConflictText(variant, ret.body.text)]_vars
    /\ [][(InPlayLoop /\ pc = "ret" /\ site = "start"
             /\ \/ ret = None
                \/ (ret.status = 400 /\ ~HasConflictText(variant, ret.body.text))
                \/ ret.status \notin {200, 201, 400})
             => SkipsTicket]_vars
    /\ [](InPlayLoop /\ site = "rec_end" => payload.items = "empty")

(* play_all_games was called with the last ticket's start answered 404    *)
(* with the active-game text in its body: the ticket has been skipped and  *)
(* the loop is over with no recovery end request issued.                   *)
C19_Witness ==
    /\ entry = "play_all_games" /\ pc = "done" /\ site = "start"
    /\ ret = Resp(404, JsonErrorId)
    /\ HasConflictText(variant, ret.body.text)
    /\ Last(attempts) = <<"NotStarted", "Failed">>
    /\ Count(log, Line("start_failed")) >= 1
    /\ Count(log, Call("rec_end")) = 0

----------------------------------------------------------------------------
(* C20 *)

(* No two calls from call site s within one ticket iteration: between any  *)
(* two of them the log has the first start of a later ticket.              *)
OncePerTicket(s) ==
    \A b \in 1..Len(log) :
        log[b] = Call(s) =>
            \A a \in 1..(b - 1) :
                log[a] = Call(s) => \E c \in (a + 1)..(b - 1) : log[c] = Call("start")

----------------------------------------------------------------------------
(* C21 *)

(* play_all_games is over: it returned (the run is done, or main has moved *)
(* on to the final stats), or the process ended.                           *)
LoopOver == pc \in {"done", "exited", "crashed"} \/ site = "fetch_final"

(* C21: whatever the server answers and whichever attempts fail, the play  *)
(* loop comes to an end, by returning or by the exit of a 401 and never by *)
(* an exception of its own, and the network attempts play_all_games(N)     *)
(* has issued never exceed 4 * maxRetries * N, every call of the loop      *)
(* being made with the default maxRetries.                                 *)
C21_TerminatesWithinBudget ==
    /\ [](entry = "play_all_games" => sent <= 4 * DefaultRetries * tickets)
    /\ []((InPlayLoop /\ site \in GameSites) => retries = DefaultRetries)
    /\ []((InPlayLoop /\ pc = "crashed") => site \in FetchSites)
    /\ (InPlayLoop => <>LoopOver)

(* play_all_games(2) has returned after the largest number of attempts a   *)
(* run makes: both starts answered 200 at the third attempt, both game-end *)
(* requests failing three times.                                           *)
C21_Witness ==
    /\ entry = "play_all_games" /\ pc = "done" /\ tickets = 2
    /\ sent = 4 * DefaultRetries
    /\ played = 2

====
